---- MODULE Spec2Model ----
(***************************************************************************)
(* Model of MjQtViewport (src/src/mjqt/viewport.py): a QGLWidget that owns *)
(* a MuJoCo model, its simulation data and the visualisation objects, and  *)
(* is driven by Qt's GL lifecycle callbacks and a QTimer.                  *)
(*                                                                         *)
(* Every external object (MjModel, MjData, MjvCamera, ...) is a record;    *)
(* None is the Python None.  Objects built from a model carry the identity *)
(* of that model.  Each handler is one atomic action: the widget lives on  *)
(* the single Qt event thread and no handler yields.                       *)
(***************************************************************************)
EXTENDS Integers, Sequences, FiniteSets, TLC

VARIABLES
    model,                 \* self._model
    data,                  \* self._data
    cam,                   \* self._cam
    opt,                   \* self._opt
    scene,                 \* self._scene
    con,                   \* self._con
    viewport,              \* self._viewport
    paused,                \* self._paused
    timer,                 \* self._timer
    default_model_loaded,  \* self._default_model_loaded
    glReady,               \* Qt has called initializeGL at least once
    updatePending,         \* a repaint requested by self.update() is queued
    nextId,                \* identity of the next MjModel object created
    op,                    \* the handler invoked last
    arg,                   \* its argument
    raised,                \* whether it let an exception out to its caller
    logged,                \* whether it called logger.error
    extCalls,              \* the mj.* / Qt calls it issued, in order
    ticksRun,              \* ticks run since the last load or step error
    stepsRun,              \* mj_step calls completed in those ticks
    updatesRun             \* self.update() calls made in those ticks

vars == <<model, data, cam, opt, scene, con, viewport, paused, timer,
          default_model_loaded, glReady, updatePending, nextId, op, arg,
          raised, logged, extCalls, ticksRun, stepsRun, updatesRun>>

\* The fields of the adapter that hold library objects.
objects == <<model, data, cam, opt, scene, con>>

\* Observation variables: they record a call, they are not fields.
history == <<op, arg, raised, logged, extCalls, ticksRun, stepsRun, updatesRun>>

-----------------------------------------------------------------------------
\* Bounds of the model.
MaxLoads == 3      \* MjModel objects created in one behaviour
MaxTime  == 4      \* physics steps applied to one MjData

\* Program constants.
SubStepsPlusOne == 2 + 1  \* variant: one sub-step too many
SubSteps      == 2      \* for _ in range(2)
TimerPeriodMs == 16     \* self._timer.start(16)
MaxGeom       == 1000   \* maxgeom=1000

None == [null |-> TRUE]

\* The file system seen by load_model_from_path.
Paths == {"missing.xml", "dir.xml", "bad.xml", "scene.xml"}

FileKind(p) ==
    CASE p = "missing.xml" -> "missing"      \* Path.exists() is False
      [] p = "dir.xml"     -> "unreadable"   \* exists, open()/read() raises
      [] p = "bad.xml"     -> "malformed"    \* from_xml_string raises
      [] OTHER             -> "valid"

\* Widget sizes Qt reports, and device pixel ratios as num/den.
Widths  == {0, 3}
Heights == {3}
Ratios  == {<<1, 1>>, <<3, 2>>}

Call(fn, args) == [fn |-> fn, args |-> args]

\* Python's int(): truncation toward zero of the rational n/d, d > 0.
PyInt(n, d) == IF n >= 0 THEN n \div d ELSE -((-n) \div d)

\* Mathematical floor of n/d, d > 0 (\div rounds toward minus infinity).
Floor(n, d) == n \div d

-----------------------------------------------------------------------------
\* Library objects.

\* mj.MjModel.from_xml_string(xml): a new model object.
MjModel(id, src) == [id |-> id, src |-> src]

\* mj.MjData(model): fresh simulation state of that model, at time 0.
MjData(m) == [model |-> m.id, time |-> 0]

\* mj.MjvCamera() / mj.MjvOption(): fresh objects, not yet defaulted.
MjvCamera(gen) == [gen |-> gen, defaulted |-> FALSE]
MjvOption(gen) == [gen |-> gen, defaulted |-> FALSE]

\* mj.mjv_defaultCamera(cam) / mj.mjv_defaultOption(opt), in place.
mjv_default(o) == [o EXCEPT !.defaulted = TRUE]

\* mj.MjvScene(model, maxgeom=1000)
MjvScene(m) == [model |-> m.id, maxgeom |-> MaxGeom]

\* mj.MjrContext(model, mjFONTSCALE_150)
MjrContext(m) == [model |-> m.id, fontscale |-> 150]

\* mj.MjrRect(left, bottom, width, height)
MjrRect(l, b, w, h) == [left |-> l, bottom |-> b, width |-> w, height |-> h]

\* mj.mj_step(model, data) advances the data by one step, in place.
mj_step(m, d) == [d EXCEPT !.time = @ + 1]

-----------------------------------------------------------------------------
\* The construction sequence shared by both loaders.  Its statements, in
\* order; a load's failure point is the statement that raises:
\*   NotFound   the "file not found" raise before the try block
\*   0          open()/read() inside the try block
\*   1 .. 8     the statements below
\*   NoFailure  nothing raises
NotFound  == -1
NoFailure == 8 + 1
StepNames == <<"from_xml_string", "MjData", "MjvCamera", "MjvOption",
               "MjvScene", "MjrContext", "mjv_defaultCamera",
               "mjv_defaultOption">>
\* The statements that can raise on a well-formed description: the parser
\* and the three allocations sized by the model (MjData, MjvScene and the
\* GL-backed MjrContext).  MjvCamera(), MjvOption() and the mjv_default*
\* calls only fill fixed-size structs.
FailPoints == {1, 2, 5, 6, NoFailure}

\* Statement k ran to completion when the failure point lies behind it.
Built(first, k) == first > k

\* What the file at `path` makes of a load whose library calls would first
\* fail at `failAt`: the statement that actually raises.
FirstFailure(path, failAt) ==
    CASE FileKind(path) = "missing"    -> NotFound
      [] FileKind(path) = "unreadable" -> 0
      [] FileKind(path) = "malformed"  -> 1
      [] OTHER                         -> failAt

\* Variant: a missing file is only reported by returning early.
LoadRaisesSilentNotFound(first) == first # NoFailure /\ first # NotFound
\* Whether load_model_from_path raises to its caller: both the early raise
\* and the re-raise of the except block.
LoadRaises(first) == first # NoFailure

\* Variant: the render context is not created.
NoContext(m) == None
\* The context a load leaves in self._con once statement 6 has run.
NewContext(m) == MjrContext(m)

\* The mj.* calls the construction sequence issues (the raising one included).
ConstructCalls(first, c, o) ==
    (IF first >= 7 THEN <<Call("mjv_defaultCamera", <<c>>)>> ELSE <<>>)
    \o (IF first >= 8 THEN <<Call("mjv_defaultOption", <<o>>)>> ELSE <<>>)

\* Lines 58-69 and 95-106: assignments happen one by one, so those before
\* the raising statement stay.
Construct(src, first) ==
    LET m == MjModel(nextId, src)
        c == MjvCamera(nextId)
        o == MjvOption(nextId)
    IN  /\ model' = IF Built(first, 1) THEN m ELSE model
        /\ data'  = IF Built(first, 2) THEN MjData(m) ELSE data
        /\ cam'   = IF Built(first, 7) THEN mjv_default(c)
                    ELSE IF Built(first, 3) THEN c ELSE cam
        /\ opt'   = IF Built(first, 8) THEN mjv_default(o)
                    ELSE IF Built(first, 4) THEN o ELSE opt
        /\ scene' = IF Built(first, 5) THEN MjvScene(m) ELSE scene
        /\ con'   = IF Built(first, 6) THEN NewContext(m) ELSE con
        /\ nextId' = IF Built(first, 1) THEN nextId + 1 ELSE nextId
        /\ extCalls' = ConstructCalls(first, c, o)

-----------------------------------------------------------------------------
Init ==
    /\ model = None /\ data = None
    /\ cam = None /\ opt = None /\ scene = None /\ con = None
    /\ viewport = None
    /\ paused = FALSE
    /\ timer = [active |-> FALSE, interval |-> 0]
    /\ default_model_loaded = FALSE
    /\ glReady = FALSE
    /\ updatePending = FALSE
    /\ nextId = 1
    /\ op = "__init__" /\ arg = None /\ raised = FALSE /\ logged = FALSE
    /\ extCalls = <<>>
    /\ ticksRun = 0 /\ stepsRun = 0 /\ updatesRun = 0

\* load_model_from_path(path), callable by the owner of the widget at any
\* time (nothing in it looks at the GL lifecycle).
load_model_from_path(path, failAt) ==
    LET first == FirstFailure(path, failAt) IN
    /\ first >= 1 => nextId <= MaxLoads
    /\ op' = "load_model_from_path" /\ arg' = path
    /\ Construct(path, first)
    /\ raised' = LoadRaises(first)
    /\ logged' = (first >= 0 /\ first # NoFailure)
    /\ ticksRun' = 0 /\ stepsRun' = 0 /\ updatesRun' = 0
    /\ UNCHANGED <<viewport, paused, timer, default_model_loaded, glReady,
                   updatePending>>

\* Variant: set_run also stops and restarts the timer.
set_run_restart(p) ==
    /\ op' = "set_run" /\ arg' = p /\ raised' = FALSE /\ logged' = FALSE
    /\ extCalls' = <<>>
    /\ paused' = p
    /\ timer' = [active |-> ~p, interval |-> TimerPeriodMs]
    /\ UNCHANGED <<objects, viewport, default_model_loaded, glReady,
                   updatePending, nextId, ticksRun, stepsRun, updatesRun>>

\* set_run(paused)
set_run(p) ==
    /\ op' = "set_run" /\ arg' = p /\ raised' = FALSE /\ logged' = FALSE
    /\ extCalls' = <<>>
    /\ paused' = p
    /\ UNCHANGED <<objects, viewport, timer, default_model_loaded, glReady,
                   updatePending, nextId, ticksRun, stepsRun, updatesRun>>

\* self._timer.start(16) unless already active.
StartTimer(t) == IF t.active THEN t
                 ELSE [active |-> TRUE, interval |-> TimerPeriodMs]

\* The condition under which initializeGL loads the default model.
NeedsDefault == ~default_model_loaded

\* initializeGL(): Qt calls it before the first resizeGL/paintGL, and again
\* whenever the widget gets a new GL context.  _load_default_model logs and
\* re-raises; initializeGL logs and swallows.
initializeGL(failAt) ==
    /\ op' = "initializeGL" /\ arg' = None /\ raised' = FALSE
    /\ glReady' = TRUE
    /\ IF NeedsDefault
       THEN /\ nextId <= MaxLoads
            /\ Construct("default", failAt)
            /\ default_model_loaded' = (failAt = NoFailure)
            /\ logged' = (failAt # NoFailure)
            /\ timer' = IF failAt = NoFailure THEN StartTimer(timer) ELSE timer
            /\ ticksRun' = 0 /\ stepsRun' = 0 /\ updatesRun' = 0
       ELSE /\ failAt = NoFailure
            /\ extCalls' = <<>> /\ logged' = FALSE
            /\ UNCHANGED <<objects, nextId, default_model_loaded, timer,
                           ticksRun, stepsRun, updatesRun>>
    /\ UNCHANGED <<viewport, paused, updatePending>>

\* Variant: the device pixel ratio is ignored.
DevicePixelsUnscaled(x, r) == x
\* int(w * pixel_ratio) for the ratio r = <<num, den>>.
DevicePixels(x, r) == PyInt(x * r[1], r[2])

\* resizeGL(w, h), with r the widget's devicePixelRatio(); setBufferFails
\* is mjr_setBuffer raising, which resizeGL does not catch.
resizeGL(w, h, r, setBufferFails) ==
    /\ glReady
    /\ op' = "resizeGL" /\ arg' = <<w, h, r>> /\ logged' = FALSE
    /\ IF con = None
       THEN /\ ~setBufferFails
            /\ raised' = FALSE /\ extCalls' = <<>>
            /\ UNCHANGED viewport
       ELSE /\ viewport' = MjrRect(0, 0, DevicePixels(w, r), DevicePixels(h, r))
            /\ extCalls' = <<Call("mjr_setBuffer", <<"mjFB_WINDOW", con>>)>>
            /\ raised' = setBufferFails
    /\ UNCHANGED <<objects, paused, timer, default_model_loaded, glReady,
                   updatePending, nextId, ticksRun, stepsRun, updatesRun>>

\* Variant: self._viewport is left out of the check.
AllPresentButViewport ==
    \A x \in {model, data, scene, con, cam, opt} : x # None
\* all([...]) of paintGL: every object is truthy unless it is None.
AllPresent ==
    \A x \in {model, data, scene, con, cam, opt, viewport} : x # None

\* The calls of paintGL's try block; failAt = 1 (mjv_updateScene raises),
\* 2 (mjr_render raises) or 0.
PaintCalls(failAt) ==
    <<Call("mjv_updateScene", <<model, data, opt, cam, scene>>)>>
    \o (IF failAt = 1 THEN <<>>
        ELSE <<Call("mjr_render", <<viewport, scene, con>>)>>)

\* paintGL(): Qt calls it for a queued update() and whenever the window
\* system wants the widget redrawn.  The except block logs and swallows.
paintGL(failAt) ==
    /\ glReady
    /\ op' = "paintGL" /\ arg' = None /\ raised' = FALSE
    /\ updatePending' = FALSE
    /\ IF AllPresent
       THEN extCalls' = PaintCalls(failAt) /\ logged' = (failAt # 0)
       ELSE failAt = 0 /\ extCalls' = <<>> /\ logged' = FALSE
    /\ UNCHANGED <<objects, viewport, paused, timer, default_model_loaded,
                   glReady, nextId, ticksRun, stepsRun, updatesRun>>

\* for _ in range(SubSteps): mj.mj_step(model, data), from iteration i on;
\* iteration failAt raises (0: none does).
RECURSIVE StepLoop(_, _, _, _)
StepLoop(i, d, log, failAt) ==
    IF i > SubSteps THEN [data |-> d, log |-> log, ok |-> TRUE]
    ELSE IF i = failAt
         THEN [data |-> d, log |-> Append(log, Call("mj_step", <<model, d>>)),
               ok |-> FALSE]
         ELSE StepLoop(i + 1, mj_step(model, d),
                       Append(log, Call("mj_step", <<model, d>>)), failAt)

\* Variant: the pause flag is not looked at.
TickSkipsIgnoringPause == model = None \/ data = None
\* The early return of _on_physics_tick.
TickSkips == paused \/ model = None \/ data = None

\* Variant: the except block re-raises after logging.
StepErrorReraised(ok) == ~ok
\* Whether the tick lets a step error out: its except block only logs.
StepErrorPropagates(ok) == FALSE

\* _on_physics_tick(): the slot of self._timer.timeout.  The except block
\* logs and swallows.  The simulation is followed up to `horizon` steps.
physics_tick(failAt, horizon) ==
    /\ op' = "_on_physics_tick" /\ arg' = None
    /\ IF TickSkips
       THEN /\ failAt = 0
            /\ extCalls' = <<>> /\ logged' = FALSE /\ raised' = FALSE
            /\ UNCHANGED <<data, updatePending, ticksRun, stepsRun, updatesRun>>
       ELSE LET r == StepLoop(1, data, <<>>, failAt) IN
            /\ data.time + SubSteps <= horizon
            /\ data' = r.data
            /\ logged' = ~r.ok
            /\ raised' = StepErrorPropagates(r.ok)
            /\ updatePending' = (r.ok \/ updatePending)
            /\ extCalls' = IF r.ok THEN Append(r.log, Call("update", <<>>))
                           ELSE r.log
            /\ ticksRun'   = IF r.ok THEN ticksRun + 1 ELSE 0
            /\ stepsRun'   = IF r.ok THEN stepsRun + (r.data.time - data.time)
                             ELSE 0
            /\ updatesRun' = IF r.ok THEN updatesRun + 1 ELSE 0
    /\ UNCHANGED <<model, cam, opt, scene, con, viewport, paused, timer,
                   default_model_loaded, glReady, nextId>>

on_physics_tick(failAt) == physics_tick(failAt, MaxTime)

-----------------------------------------------------------------------------
\* The events of the widget's environment.
Load        == \E p \in Paths, f \in FailPoints : load_model_from_path(p, f)
SetRun      == \E p \in BOOLEAN : set_run(p)
SurfaceReady == \E f \in FailPoints : initializeGL(f)
Resize      == \E w \in Widths, h \in Heights, r \in Ratios, e \in BOOLEAN :
                   resizeGL(w, h, r, e)
Repaint     == \E f \in 0..2 : paintGL(f)
\* The timer fires only while active ...
TimerTimeout == timer.active /\ \E f \in 0..SubSteps : on_physics_tick(f)
\* ... but the slot is an ordinary method that a caller can invoke as well.
DirectTick  == \E f \in 0..SubSteps : on_physics_tick(f)

Next ==
    \/ Load
    \/ SetRun
    \/ SurfaceReady
    \/ Resize
    \/ Repaint
    \/ TimerTimeout
    \/ DirectTick

Spec == Init /\ [][Next]_vars

\* The end-to-end run of a working installation: the application shell
\* (src/src/app.py) shows the widget and calls nothing on it, no library
\* call of the default load or of a step fails, and the owner may pause and
\* resume.  Followed for E2ETicks + 1 running ticks.
E2ETicks == 10
StartUp   == ~glReady /\ initializeGL(NoFailure)
TimerTick == timer.active /\ physics_tick(0, (E2ETicks + 1) * SubSteps)
NextE2E ==
    \/ StartUp
    \/ TimerTick
    \/ SetRun
    \/ Resize
    \/ Repaint
SpecE2E == Init /\ [][NextE2E]_vars

-----------------------------------------------------------------------------
\* Vocabulary of the properties.

\* The fields a caller of the adapter can tell apart.
adapter == <<model, data, cam, opt, scene, con, viewport, paused, timer,
             default_model_loaded>>

IsLoad    == op = "load_model_from_path"
IsSetRun  == op = "set_run"
IsInitGL  == op = "initializeGL"
IsResize  == op = "resizeGL"
IsPaint   == op = "paintGL"
IsTick    == op = "_on_physics_tick"

\* The calls of the last handler to the library function fn.
CallsTo(fn) == SelectSeq(extCalls, LAMBDA c : c.fn = fn)

-----------------------------------------------------------------------------
\* C1: in every reachable state Model, SimulationState and RenderContext
\* are either all present or all absent.
C1_AllOrNone ==
    \/ model = None /\ data = None /\ con = None
    \/ model # None /\ data # None /\ con # None

\* C2: a load_model_from_path call on a path that does not exist raises to
\* the caller and leaves Model, SimulationState, the render objects,
\* ViewportRect and the paused flag as they were (unset if never loaded).
C2_MissingPathRaisesAndKeepsState ==
    [][(IsLoad' /\ FileKind(arg') = "missing")
         => (raised' /\ UNCHANGED <<objects, viewport, paused>>)]_vars

\* C2 witness: a missing path was rejected while a model was loaded, and
\* the loaded model is still in place.
C2_Witness ==
    /\ IsLoad /\ FileKind(arg) = "missing" /\ raised
    /\ model # None /\ data # None /\ con # None

\* C3: whenever load_model_from_path fails, for any reason, the failure is
\* raised to the caller and Model, SimulationState and RenderContext stay
\* exactly as they were before the call.
C3_FailedLoadKeepsState ==
    [][(IsLoad' /\ (raised' \/ logged')
          /\ model # None /\ data # None /\ con # None)
         => (raised' /\ UNCHANGED <<model, data, con>>)]_vars

\* C4: after a load_model_from_path call that succeeds, Model,
\* SimulationState and RenderContext (camera, options, scene, context) are
\* all non-null and the ViewportRect is the one from before the call.
C4_SuccessfulLoadInstallsAll ==
    [][(IsLoad' /\ ~raised')
         => /\ model' # None /\ data' # None /\ con' # None
            /\ cam' # None /\ opt' # None /\ scene' # None
            /\ model' # model
            /\ viewport' = viewport]_vars

\* C4 witness: a load succeeded although a ViewportRect was already set.
C4_Witness ==
    /\ IsLoad /\ ~raised /\ viewport # None
    /\ model # None /\ model.src = "scene.xml"

\* A tick does nothing in these states.
C5_Idle == paused \/ model = None \/ data = None

\* C5: with Model and SimulationState present and the adapter running, a
\* tick in which no step raises performs exactly 2 physics steps and
\* requests one repaint, so that N such ticks with no load or step error in
\* between perform 2*N steps and N repaint requests; a tick while paused or
\* with no model loaded performs no step and requests no repaint.
C5_TwoStepsPerTick ==
    /\ [](stepsRun = 2 * ticksRun /\ updatesRun = ticksRun)
    /\ [][(IsTick' /\ ~C5_Idle /\ ~logged')
            => /\ data'.time = data.time + 2
               /\ data'.model = data.model
               /\ Len(CallsTo("mj_step")') = 2
               /\ Len(CallsTo("update")') = 1
               /\ ticksRun' = ticksRun + 1
               /\ updatePending']_vars
    /\ [][(IsTick' /\ C5_Idle)
            => /\ data' = data
               /\ extCalls' = <<>>
               /\ updatePending' = updatePending
               /\ ticksRun' = ticksRun]_vars

\* C5 witness: two consecutive running ticks (N = 2) have been performed.
C5_Witness ==
    /\ IsTick /\ ~paused /\ timer.active /\ default_model_loaded
    /\ model.src = "default" /\ data.model = model.id /\ con.model = model.id
    /\ ticksRun = 2 /\ stepsRun = 4 /\ updatesRun = 2
    /\ data.time = 4 /\ updatePending

\* C6: set_run never raises and changes nothing but the paused flag; a
\* second set_run(True) in a row leaves the adapter as the first one left
\* it, and a tick while paused performs no physics step.
C6_SetRunOnlyFlag ==
    /\ [][IsSetRun'
            => /\ paused' = arg' /\ ~raised'
               /\ UNCHANGED <<objects, viewport, timer,
                              default_model_loaded>>]_vars
    /\ [][(IsSetRun /\ arg = TRUE /\ IsSetRun' /\ arg' = TRUE)
            => UNCHANGED adapter]_vars
    /\ [][(IsTick' /\ paused)
            => (data' = data /\ CallsTo("mj_step")' = <<>>)]_vars

\* C6 witness: set_run(True) was called on a loaded adapter whose timer
\* is running and whose simulation had advanced.
C6_Witness ==
    /\ IsSetRun /\ arg = TRUE /\ paused
    /\ timer.active /\ data # None /\ data.time > 0

\* C7: initializeGL loads the default model only if no model is loaded
\* yet, so a model fully installed by an earlier load_model_from_path is
\* kept, and when initializeGL returns (its load, if any, not having
\* failed) the timer is active with a 16 ms period.
C7_SurfaceReadyKeepsModelStartsTimer ==
    [][IsInitGL'
         => /\ (/\ model # None /\ data # None /\ con # None
                 /\ data.model = model.id /\ con.model = model.id)
                => model' = model
            /\ ~logged' => (timer'.active /\ timer'.interval = 16)]_vars

\* C8: while initializeGL has not fired, no load_model_from_path call has
\* installed a Model, SimulationState or RenderContext.
C8_NoLoadBeforeSurfaceReady ==
    ~glReady => (model = None /\ data = None /\ con = None)

\* C9: a resize (w, h) with device pixel ratio r sets ViewportRect to
\* (0, 0, floor(w*r), floor(h*r)) and issues the bind of the context to
\* the window framebuffer when a RenderContext exists; with no
\* RenderContext it changes nothing and does not raise.
C9_ResizeSetsViewport ==
    [][IsResize'
         => LET w == arg'[1]
                h == arg'[2]
                r == arg'[3]
            IN  IF con # None
                THEN /\ viewport' = [left |-> 0, bottom |-> 0,
                                     width  |-> Floor(w * r[1], r[2]),
                                     height |-> Floor(h * r[1], r[2])]
                     /\ extCalls' =
                          <<Call("mjr_setBuffer", <<"mjFB_WINDOW", con>>)>>
                     /\ UNCHANGED <<objects, paused, timer>>
                ELSE /\ UNCHANGED adapter
                     /\ ~raised' /\ extCalls' = <<>>]_vars

\* C9 witness: a resize to width 3 at ratio 3/2 gave a viewport 4 wide.
C9_Witness ==
    /\ IsResize /\ con # None /\ arg[1] = 3 /\ arg[3] = <<3, 2>>
    /\ viewport # None /\ viewport.width = 4

\* Everything paintGL needs is there.
C10_Present ==
    /\ model # None /\ data # None /\ scene # None /\ con # None
    /\ cam # None /\ opt # None /\ viewport # None

\* C10: paintGL issues mjv_updateScene followed by mjr_render exactly when
\* Model, SimulationState, scene, context, camera, options and ViewportRect
\* are all present (the render call being skipped only when the scene
\* update raised); with any of them missing it makes no external call; and
\* it never raises, whatever the two calls do.
C10_PaintGuardedAndSilent ==
    [][IsPaint'
         => /\ ~raised'
            /\ UNCHANGED adapter
            /\ IF C10_Present
               THEN /\ Len(extCalls') >= 1
                    /\ extCalls'[1] =
                         Call("mjv_updateScene",
                              <<model, data, opt, cam, scene>>)
                    /\ Len(extCalls') = 2
                         => extCalls'[2] =
                              Call("mjr_render", <<viewport, scene, con>>)
                    /\ ~logged' => Len(extCalls') = 2
               ELSE extCalls' = <<>> /\ ~logged']_vars

\* C10 witness: a repaint issued both calls.
C10_Witness ==
    /\ IsPaint /\ ~logged /\ Len(extCalls) = 2
    /\ extCalls[2].fn = "mjr_render"

\* C11: an error raised by a physics step inside the tick is logged and
\* not raised to the caller, and leaves the timer and the paused flag as
\* they were, so the tick is attempted again; the next tick, if no step
\* raises in it, performs its full 2 steps and requests a repaint.
C11_StepErrorSwallowed ==
    /\ [][(IsTick' /\ logged')
            => /\ ~raised'
               /\ timer' = timer /\ paused' = paused
               /\ ~C5_Idle'
               /\ UNCHANGED <<model, cam, opt, scene, con, viewport>>]_vars
    /\ [][(IsTick /\ logged /\ IsTick' /\ ~logged')
            => /\ data'.time = data.time + 2
               /\ Len(CallsTo("mj_step")') = 2
               /\ Len(CallsTo("update")') = 1
               /\ updatePending']_vars

\* C11 witness: a timer tick whose second step raised (one step done) was
\* followed by a tick that performed both of its steps.
C11_Witness ==
    /\ IsTick /\ ~logged /\ ~raised /\ timer.active /\ ~paused
    /\ data.time = 3 /\ ticksRun = 1 /\ updatePending

\* C12: end to end, surface-ready leaves the default model loaded and the
\* timer active; every running tick requests a repaint, so 10 ticks while
\* unpaused give at least 10 repaint requests; while paused no physics
\* step is performed; and a repaint never raises and never changes the
\* SimulationState.
C12_EndToEnd ==
    /\ [][IsInitGL'
            => /\ model' # None /\ model'.src = "default"
               /\ data' # None /\ con' # None
               /\ timer'.active /\ timer'.interval = 16]_vars
    /\ [](updatesRun >= ticksRun /\ stepsRun = 2 * ticksRun)
    /\ [](ticksRun >= 10 => (updatesRun >= 10 /\ data.time >= 20))
    /\ [][paused => CallsTo("mj_step")' = <<>>]_vars
    /\ [][(paused /\ data # None) => data' = data]_vars
    /\ [][IsPaint' => (~raised' /\ data' = data)]_vars

\* C12 witness: after 10 running ticks the adapter was paused and a
\* repaint came in while it was: the simulation stands at 20 steps.
C12_Witness ==
    /\ IsPaint /\ paused /\ timer.active /\ Len(extCalls) = 2
    /\ ticksRun = 10 /\ updatesRun = 10 /\ data.time = 20

\* A load has run to its end and nothing has touched its objects since:
\* scene, context and simulation state all belong to the current model.
FullyLoaded ==
    /\ model # None /\ data # None /\ scene # None /\ con # None
    /\ cam # None /\ opt # None
    /\ data.model = model.id /\ scene.model = model.id
    /\ con.model = model.id

\* C13: after surface-ready, a state in which a Model is loaded has the
\* timer running; stated for the states that a successful
\* load_model_from_path call leaves once the surface is ready, which
\* include those where the default load had failed before.
C13_ModelLoadedImpliesTimer ==
    (glReady /\ IsLoad /\ ~raised /\ FullyLoaded) => timer.active

\* The objects a library call was handed: of one load, or mixed.
SameLoad(m, d, sc) == d.model = m.id /\ sc.model = m.id

\* C14: the Model, SimulationState, scene and RenderContext that paintGL
\* hands to mjv_updateScene and mjr_render all derive from the same load.
C14_RenderSeesOneLoad ==
    IsPaint =>
        /\ \A i \in 1..Len(CallsTo("mjv_updateScene")) :
             LET a == CallsTo("mjv_updateScene")[i].args
             IN  SameLoad(a[1], a[2], a[5])
        /\ \A i \in 1..Len(CallsTo("mjr_render")) :
             LET a == CallsTo("mjr_render")[i].args
             IN  a[2].model = model.id /\ a[3].model = model.id

\* C15: when the default load of initializeGL fails on an adapter without a
\* model, at whichever statement, the failure is logged and not raised, the
\* Model stays absent, and a following tick performs no physics step.
C15_FailedDefaultLeavesNoModel ==
    /\ [][(IsInitGL' /\ logged' /\ model = None)
            => (~raised' /\ model' = None /\ data' = None)]_vars
    /\ [][(IsInitGL /\ logged /\ IsTick')
            => (model = None => CallsTo("mj_step")' = <<>>)]_vars

\* C16: repaint, resize, set_run, and surface-ready on an adapter whose
\* model is loaded, leave the SimulationState unchanged: only the tick and
\* a model load change it.
C16_DataChangedOnlyByTickAndLoad ==
    [][(\/ IsPaint' \/ IsResize' \/ IsSetRun'
        \/ (IsInitGL' /\ FullyLoaded))
         => data' = data]_vars

\* C17: the timer is started only by initializeGL, and only after its
\* default load has run to the end; no other handler starts or stops it
\* and nothing stops it once started; so an active timer implies that
\* the default-model-loaded flag is set.
C17_TimerOnlyAfterDefaultLoad ==
    /\ [](timer.active => (default_model_loaded /\ timer.interval = 16))
    /\ [][timer' # timer
            => /\ IsInitGL' /\ ~logged' /\ ~timer.active /\ timer'.active
               /\ default_model_loaded' /\ model'.src = "default"]_vars
    /\ [][(IsLoad' \/ IsSetRun') => timer' = timer]_vars
    /\ [][timer.active => timer'.active]_vars

\* C17 witness: with the timer running, an explicit load succeeded and
\* the adapter was paused, and the timer is still running at 16 ms.
C17_Witness ==
    /\ IsSetRun /\ paused /\ timer.active /\ timer.interval = 16
    /\ default_model_loaded /\ FullyLoaded /\ model.src = "scene.xml"

\* C18: ViewportRect is set only by resizeGL called while a RenderContext
\* exists, and no render call is issued while it is unset: a model loaded
\* after a resize that found no context is not rendered until a further
\* resize.
C18_NoRenderBeforeResize ==
    /\ [][viewport' # viewport => (IsResize' /\ con # None)]_vars
    /\ [][(IsPaint' /\ viewport = None) => extCalls' = <<>>]_vars
    /\ [](CallsTo("mjr_render") # <<>> => viewport # None)
    /\ [][(IsLoad' \/ IsInitGL' \/ IsTick' \/ IsSetRun' \/ IsPaint')
            => viewport' = viewport]_vars

\* C18 witness: a repaint came with a model loaded from a file and
\* everything present except the ViewportRect, and it issued no call.
C18_Witness ==
    /\ IsPaint /\ glReady /\ FullyLoaded /\ model.src = "scene.xml"
    /\ viewport = None /\ extCalls = <<>> /\ ~default_model_loaded

====
